---- MODULE Spec2Model ----
(***************************************************************************)
(* Behaviour detector of the clickstream template                          *)
(* (src/Detect User Behaviour/behaviour_detector.py).                      *)
(*                                                                         *)
(* A row of the received dataframe is a record whose DOMAIN is the set of  *)
(* labels of the row: `"gender" not in row` is "gender" \notin DOMAIN row. *)
(* Timestamps are counted in minutes (one unit is 60 * 10^9 ns), so that   *)
(* window_ns of check_time_elapsed is window_minutes units.                *)
(* The dict state of a user is a record (state, rows, offer); a dict the   *)
(* store has just created (no key set yet) is represented by the defaults  *)
(* lines 98-102 give it, state = "init" and rows = <<>>, with offer =      *)
(* NoOffer: the three keys are always set together, by the first eligible  *)
(* row of the user.                                                        *)
(***************************************************************************)
EXTENDS Integers, Sequences, FiniteSets, TLC

VARIABLES
    user_state,                 \* stream_consumer.get_dict_state: userId -> dict state
    special_offers_recipients,  \* self._special_offers_recipients
    trace,                      \* the logger records the last call emitted
    time_valid,                 \* what check_time_elapsed returned for the last row
    looked_up,                  \* the state whose rule list line 112 read for the last row
    error,                      \* the exception process_dataframe raised, if any
    ref_state,                  \* second run, fed only the rows the first run did not skip
    ref_recipients,             \* recipients of the second run
    pattern,                    \* the rows of the browsing pattern delivered so far
    row,                        \* the row of the last call, where the run records it
    held,                       \* the list object the dispatcher's reference points to
    old_list,                   \* the contents of that object, once it is no longer the detector's
    snapshot,                   \* what get_special_offers_recipients returned, as it was then
    dpc,                        \* where the dispatcher is in its round: idle, read, delivered
    sent,                       \* the entries the dispatcher delivered in its last delivery
    undelivered,                \* the entries appended since the dispatcher's last delivery
    lost                        \* the entries the dispatcher's last clear removed undelivered

dispatcher == <<dpc, sent, undelivered, lost>>

vars == <<user_state, special_offers_recipients, trace, time_valid, looked_up, error,
          ref_state, ref_recipients, pattern, row, held, old_list, snapshot,
          dpc, sent, undelivered, lost>>

(***************************************************************************)
(* Bounds and input domains.                                               *)
(***************************************************************************)
MaxRows == 3
MaxRecipients == 1

window_minutes == 30
window_ns == window_minutes

Keys == {"u1", "u2"}
Categories == {"clothing", "shoes", "electronics"}
Products == {"P1", "P2", "P3"}
Genders == {"M", "F"}
Ages == {40}
Timestamps == {0, window_minutes}

NoOffer == "none"

\* no row: nothing received yet, or the last call was not process_dataframe
NoRow == [userId |-> "none"]

\* the rows of the first user range over every combination of the domains
EligibleRows ==
    [userId : {"u1"}, category : Categories, productId : Products,
     timestamp : Timestamps, gender : Genders, age : Ages]

\* rows of a dataframe that has no gender column, no age column, or neither
NoGenderRows ==
    [userId : {"u1"}, category : {"clothing"}, productId : {"P1"},
     timestamp : {0}, age : Ages]

NoAgeRows ==
    [userId : {"u1"}, category : {"clothing"}, productId : {"P1"},
     timestamp : {0}, gender : {"M"}]

NoGenderNoAgeRows ==
    [userId : {"u1"}, category : {"clothing"}, productId : {"P1"}, timestamp : {0}]

IneligibleRows == NoGenderRows \cup NoAgeRows \cup NoGenderNoAgeRows

\* a second user, who opens a session next to the first one's
OtherUserRows ==
    [userId : {"u2"}, category : {"clothing"}, productId : {"P1"},
     timestamp : {0}, gender : {"M"}, age : Ages]

Rows == EligibleRows \cup IneligibleRows \cup OtherUserRows

(***************************************************************************)
(* check_time_elapsed                                                      *)
(***************************************************************************)
\* line 22 with <= for <: a row exactly one window after the anchor is valid
check_time_elapsed_inclusive(r, current_state) ==
    IF Len(current_state.rows) = 0
    THEN TRUE
    ELSE r.timestamp - current_state.rows[1].timestamp <= window_ns

\* line 19 reading the last row, rows[-1], for the first, rows[0]
check_time_elapsed_since_last_row(r, current_state) ==
    IF Len(current_state.rows) = 0
    THEN TRUE
    ELSE r.timestamp - current_state.rows[Len(current_state.rows)].timestamp
            < window_ns

check_time_elapsed(r, current_state) ==
    IF Len(current_state.rows) = 0
    THEN TRUE
    ELSE r.timestamp - current_state.rows[1].timestamp < window_ns

(***************************************************************************)
(* BehaviourDetector.transitions: the rule lists, in declaration order.    *)
(***************************************************************************)
\* lines 55-59 left out: "shoes_visited" has the rule to "offer" only
transitions_without_same_product_rule ==
    [init            |-> << [condition |-> "init_clothing_demographic",
                             next_state |-> "clothes_visited"] >>,
     clothes_visited |-> << [condition |-> "shoes",
                             next_state |-> "shoes_visited"],
                            [condition |-> "clothing",
                             next_state |-> "clothes_visited"] >>,
     shoes_visited   |-> << [condition |-> "clothing_other_product",
                             next_state |-> "offer"] >>]

transitions ==
    [init            |-> << [condition |-> "init_clothing_demographic",
                             next_state |-> "clothes_visited"] >>,
     clothes_visited |-> << [condition |-> "shoes",
                             next_state |-> "shoes_visited"],
                            [condition |-> "clothing",
                             next_state |-> "clothes_visited"] >>,
     shoes_visited   |-> << [condition |-> "clothing_other_product",
                             next_state |-> "offer"],
                            [condition |-> "clothing_same_product",
                             next_state |-> "clothes_visited"] >>]

\* lines 34-35 left out: any clothing row opens a session
condition_without_demographic(name, r, current_state) ==
    CASE name = "init_clothing_demographic" -> r.category = "clothing"
      [] name = "shoes" -> r.category = "shoes"
      [] name = "clothing" -> r.category = "clothing"
      [] name = "clothing_other_product" ->
            /\ r.category = "clothing"
            /\ r.productId # current_state.rows[1].productId
      [] name = "clothing_same_product" ->
            /\ r.category = "clothing"
            /\ r.productId = current_state.rows[1].productId

\* lines 34-35 with < for the <= of the upper bounds
condition_exclusive_upper_bounds(name, r, current_state) ==
    CASE name = "init_clothing_demographic" ->
            /\ r.category = "clothing"
            /\ \/ (r.gender = "M" /\ 35 <= r.age /\ r.age < 45)
               \/ (r.gender = "F" /\ 25 <= r.age /\ r.age < 35)
      [] name = "shoes" -> r.category = "shoes"
      [] name = "clothing" -> r.category = "clothing"
      [] name = "clothing_other_product" ->
            /\ r.category = "clothing"
            /\ r.productId # current_state.rows[1].productId
      [] name = "clothing_same_product" ->
            /\ r.category = "clothing"
            /\ r.productId = current_state.rows[1].productId

condition(name, r, current_state) ==
    CASE name = "init_clothing_demographic" ->
            /\ r.category = "clothing"
            /\ \/ (r.gender = "M" /\ 35 <= r.age /\ r.age <= 45)
               \/ (r.gender = "F" /\ 25 <= r.age /\ r.age <= 35)
      [] name = "shoes" -> r.category = "shoes"
      [] name = "clothing" -> r.category = "clothing"
      [] name = "clothing_other_product" ->
            /\ r.category = "clothing"
            /\ r.productId # current_state.rows[1].productId
      [] name = "clothing_same_product" ->
            /\ r.category = "clothing"
            /\ r.productId = current_state.rows[1].productId

\* line 113: the rule's condition, then the window guard
rule_applies(transition, r, current_state) ==
    /\ condition(transition.condition, r, current_state)
    /\ check_time_elapsed(r, current_state)

\* lines 112-120: the indices of the rules that apply; the loop takes the first
matching(r, current_state) ==
    { i \in 1..Len(transitions[current_state.state]) :
        rule_applies(transitions[current_state.state][i], r, current_state) }

first_match(r, current_state) ==
    CHOOSE i \in matching(r, current_state) :
        \A j \in matching(r, current_state) : i <= j

\* line 96 with the test on the gender left out: every user gets offer1
offer_of_always_offer1(r) == "offer1"

\* line 96
offer_of(r) == IF r.gender = "M" THEN "offer1" ELSE "offer2"

\* lines 105-107 left out: no row is taken for a page refresh
is_page_refresh_never(r, current_state) == FALSE

\* line 105
is_page_refresh(r, current_state) ==
    /\ Len(current_state.rows) > 0
    /\ current_state.rows[Len(current_state.rows)].productId = r.productId

\* lines 132-133 left out: the rows of the resolved session are kept
trigger_offer_keeps_rows(r, entered) ==
    [state    |-> [state |-> "init", rows |-> entered.rows, offer |-> entered.offer],
     appended |-> << <<r.userId, entered.offer>> >>,
     trace    |-> << <<"triggered", r.userId, entered.offer>> >>]

\* line 132 left out: the state stays "offer" after the recipient is appended
trigger_offer_stays_offer(r, entered) ==
    [state    |-> [state |-> "offer", rows |-> <<>>, offer |-> entered.offer],
     appended |-> << <<r.userId, entered.offer>> >>,
     trace    |-> << <<"triggered", r.userId, entered.offer>> >>]

\* line 134 with the offer of the anchor rows[0] for user_state["offer"]
trigger_offer_of_anchor(r, entered) ==
    [state    |-> [state |-> "init", rows |-> <<>>, offer |-> entered.offer],
     appended |-> << <<r.userId, offer_of(entered.rows[1])>> >>,
     trace    |-> << <<"triggered", r.userId, entered.offer>> >>]

\* lines 129-134
trigger_offer(r, entered) ==
    [state    |-> [state |-> "init", rows |-> <<>>, offer |-> entered.offer],
     appended |-> << <<r.userId, entered.offer>> >>,
     trace    |-> << <<"triggered", r.userId, entered.offer>> >>]

\* lines 113-120: the rule taken
take(transition, r, current_state) ==
    [state |-> transition.next_state,
     rows  |-> Append(current_state.rows, r),
     offer |-> current_state.offer]

\* line 125 left out: the state survives the reset
reset_keeps_state(current_state) ==
    [state |-> current_state.state, rows |-> <<>>, offer |-> current_state.offer]

\* line 126 left out: the rows survive the reset
reset_keeps_rows(current_state) ==
    [state |-> "init", rows |-> current_state.rows, offer |-> current_state.offer]

\* lines 123-127
reset(current_state) ==
    [state |-> "init", rows |-> <<>>, offer |-> current_state.offer]

\* line 113: check_time_elapsed is called when a rule's condition holds
called_check_time_elapsed(r, current_state) ==
    \E i \in 1..Len(transitions[current_state.state]) :
        condition(transitions[current_state.state][i].condition, r, current_state)

\* lines 111-134, for a row that passed the filter and the page refresh check
apply_transitions(r, current_state) ==
    IF current_state.state \notin DOMAIN transitions
    THEN [state |-> current_state, appended |-> <<>>, trace |-> <<>>,
          time_valid |-> "not called", looked_up |-> current_state.state,
          error |-> "KeyError"]
    ELSE LET checked == IF ~called_check_time_elapsed(r, current_state)
                        THEN "not called"
                        ELSE IF check_time_elapsed(r, current_state)
                        THEN "true" ELSE "false"
         IN  IF matching(r, current_state) = {}
             THEN [state      |-> reset(current_state),
                   appended   |-> <<>>,
                   trace      |-> << <<"reset", r.userId>> >>,
                   time_valid |-> checked,
                   looked_up  |-> current_state.state,
                   error      |-> "none"]
             ELSE LET transition ==
                          transitions[current_state.state][first_match(r, current_state)]
                      entered == take(transition, r, current_state)
                      logged == << <<"entered", r.userId, entered.state,
                                     r.productId, r.category>> >>
                      resolved == IF entered.state = "offer"
                                  THEN trigger_offer(r, entered)
                                  ELSE [state |-> entered, appended |-> <<>>,
                                        trace |-> <<>>]
                  IN  [state      |-> resolved.state,
                       appended   |-> resolved.appended,
                       trace      |-> logged \o resolved.trace,
                       time_valid |-> checked,
                       looked_up  |-> current_state.state,
                       error      |-> "none"]

\* lines 80-87 and 104-107: a row that changes nothing
ignored(r, stored, why) ==
    [state |-> stored, appended |-> <<>>, trace |-> << <<why, r.userId>> >>,
     time_valid |-> "not called", looked_up |-> "none", error |-> "none"]

\* line 96 moved above the age filter: a row without age sets the offer
process_row_offer_before_age(r, stored) ==
    IF "gender" \notin DOMAIN r
    THEN ignored(r, stored, "no gender")
    ELSE LET current_state == [stored EXCEPT !.offer = offer_of(r)]
         IN  IF "age" \notin DOMAIN r
             THEN ignored(r, current_state, "no age")
             ELSE IF is_page_refresh(r, current_state)
             THEN ignored(r, current_state, "page refresh")
             ELSE apply_transitions(r, current_state)

\* lines 77-134: the body of the loop for one row, on the dict state of its user
process_row(r, stored) ==
    IF "gender" \notin DOMAIN r
    THEN ignored(r, stored, "no gender")
    ELSE IF "age" \notin DOMAIN r
    THEN ignored(r, stored, "no age")
    ELSE LET current_state == [stored EXCEPT !.offer = offer_of(r)]
         IN  IF is_page_refresh(r, current_state)
             THEN ignored(r, current_state, "page refresh")
             ELSE apply_transitions(r, current_state)

(***************************************************************************)
(* State machine.                                                          *)
(***************************************************************************)
NewState == [state |-> "init", rows |-> <<>>, offer |-> NoOffer]

Init ==
    /\ user_state = [k \in Keys |-> NewState]
    /\ special_offers_recipients = <<>>
    /\ trace = <<>>
    /\ time_valid = "not called"
    /\ looked_up = "none"
    /\ error = "none"
    /\ ref_state = [k \in Keys |-> NewState]
    /\ ref_recipients = <<>>
    /\ pattern = <<>>
    /\ row = NoRow
    /\ held = "none"
    /\ old_list = <<>>
    /\ snapshot = <<>>
    /\ dpc = "idle"
    /\ sent = <<>>
    /\ undelivered = <<>>
    /\ lost = <<>>

\* line 134 appending only an entry the list does not hold yet
DeliverWithinDeduplicated(r, max_rows, max_recipients) ==
    LET k == r.userId
    IN  \E out \in {process_row(r, user_state[k])} :
        /\ error = "none"
        /\ Len(out.state.rows) <= max_rows
        /\ Len(special_offers_recipients) + Len(out.appended) <= max_recipients
        /\ user_state' = [user_state EXCEPT ![k] = out.state]
        /\ special_offers_recipients' =
              IF \E i \in 1..Len(special_offers_recipients) :
                    \E j \in 1..Len(out.appended) :
                       special_offers_recipients[i] = out.appended[j]
              THEN special_offers_recipients
              ELSE special_offers_recipients \o out.appended
        /\ trace' = out.trace
        /\ time_valid' = out.time_valid
        /\ looked_up' = out.looked_up
        /\ error' = out.error
        /\ UNCHANGED <<held, old_list, snapshot>>

\* process_dataframe on a dataframe of one row r: what it does to the detector,
\* in a run where no user keeps more than max_rows rows and the list no more
\* than max_recipients entries.  Line 134 appends to the list object in place:
\* a reference to that object (held = "current") sees the entry.
DeliverWithin(r, max_rows, max_recipients) ==
    LET k == r.userId
    IN  \E out \in {process_row(r, user_state[k])} :
        /\ error = "none"
        /\ Len(out.state.rows) <= max_rows
        /\ Len(special_offers_recipients) + Len(out.appended) <= max_recipients
        /\ user_state' = [user_state EXCEPT ![k] = out.state]
        /\ special_offers_recipients' = special_offers_recipients \o out.appended
        /\ trace' = out.trace
        /\ time_valid' = out.time_valid
        /\ looked_up' = out.looked_up
        /\ error' = out.error
        /\ UNCHANGED <<held, old_list, snapshot>>

DeliverUpTo(r, max) ==
    /\ DeliverWithin(r, max, MaxRecipients)
    /\ UNCHANGED dispatcher

Deliver(r) == DeliverUpTo(r, MaxRows)

\* line 142 left out: the call leaves the list as it is
ClearKeepsList ==
    /\ trace' = <<>>
    /\ time_valid' = "not called"
    /\ looked_up' = "none"
    /\ UNCHANGED <<user_state, special_offers_recipients, error,
                   held, old_list, snapshot>>

\* clear_special_offers_recipients: line 142 binds the attribute to a new list
\* object; the object it was bound to keeps its entries
Clear ==
    /\ special_offers_recipients' = <<>>
    /\ IF held = "current"
       THEN held' = "old" /\ old_list' = special_offers_recipients
       ELSE UNCHANGED <<held, old_list>>
    /\ UNCHANGED snapshot
    /\ trace' = <<>>
    /\ time_valid' = "not called"
    /\ looked_up' = "none"
    /\ UNCHANGED <<user_state, error>>

ProcessRow(r) ==
    /\ Deliver(r)
    /\ UNCHANGED <<ref_state, ref_recipients, pattern, row>>

ClearSpecialOffersRecipients ==
    /\ Clear
    /\ UNCHANGED <<ref_state, ref_recipients, pattern, row, dispatcher>>

Next ==
    \/ \E r \in Rows : ProcessRow(r)
    \/ ClearSpecialOffersRecipients

Spec == Init /\ [][Next]_vars

(***************************************************************************)
(* Two runs of the detector side by side.  The first is fed every row; the *)
(* second is fed only the rows that the filter of lines 81-87 and the page *)
(* refresh check of line 105 did not skip in the first.                    *)
(***************************************************************************)
skipped(r, stored) ==
    \/ "gender" \notin DOMAIN r
    \/ "age" \notin DOMAIN r
    \/ is_page_refresh(r, stored)

ProcessRowInBothRuns(r) ==
    LET k == r.userId
    IN  \E ref \in {IF skipped(r, user_state[k])
                    THEN [state |-> ref_state[k], appended |-> <<>>]
                    ELSE process_row(r, ref_state[k])} :
        /\ Deliver(r)
        /\ ref_state' = [ref_state EXCEPT ![k] = ref.state]
        /\ ref_recipients' = ref_recipients \o ref.appended
        /\ UNCHANGED <<pattern, row>>

ClearInBothRuns ==
    /\ Clear
    /\ ref_recipients' = <<>>
    /\ UNCHANGED <<ref_state, pattern, row, dispatcher>>

NextPair ==
    \/ \E r \in Rows : ProcessRowInBothRuns(r)
    \/ ClearInBothRuns

SpecPair == Init /\ [][NextPair]_vars

(***************************************************************************)
(* A stream in which, at any point, a user may browse clothing P1, then    *)
(* shoes P2, then clothing P3, three different products, as three          *)
(* consecutive rows, each less than a window after every row before it    *)
(* (rows may arrive out of order); pattern holds the rows browsed so far.  *)
(* Before and after the three rows the stream is arbitrary.                *)
(***************************************************************************)
qualifying(r) ==
    \/ (r.gender = "M" /\ 35 <= r.age /\ r.age <= 45)
    \/ (r.gender = "F" /\ 25 <= r.age /\ r.age <= 35)

\* the comparison of check_time_elapsed, with q in the place of rows[0]:
\* one-sided, so a row older than q is always inside the window of q
within_window(r, q) ==
    r.timestamp - q.timestamp < window_ns

continues_pattern(r) ==
    /\ qualifying(r)
    /\ \A i \in 1..Len(pattern) :
          /\ r.userId = pattern[i].userId
          /\ r.productId # pattern[i].productId
          /\ within_window(r, pattern[i])
    /\ r.category = IF Len(pattern) = 1 THEN "shoes" ELSE "clothing"

BrowsePattern(r) ==
    /\ Len(pattern) < 3
    /\ continues_pattern(r)
    /\ Deliver(r)
    /\ pattern' = Append(pattern, r)
    /\ UNCHANGED <<ref_state, ref_recipients, row>>

BrowseOther(r) ==
    /\ Len(pattern) \in {0, 3}
    /\ Deliver(r)
    /\ pattern' = <<>>
    /\ UNCHANGED <<ref_state, ref_recipients, row>>

NextPattern ==
    \/ \E r \in EligibleRows : BrowsePattern(r)
    \/ \E r \in Rows : BrowseOther(r)

SpecPattern == Init /\ [][NextPattern]_vars

(***************************************************************************)
(* A run that records, with every call, the row the call was given: a step *)
(* of process_dataframe leaves its row in row, a step of                   *)
(* clear_special_offers_recipients leaves NoRow.                           *)
(***************************************************************************)
ProcessRowRecorded(r) ==
    /\ Deliver(r)
    /\ row' = r
    /\ UNCHANGED <<ref_state, ref_recipients, pattern>>

ClearRecorded ==
    /\ Clear
    /\ row' = NoRow
    /\ UNCHANGED <<ref_state, ref_recipients, pattern, dispatcher>>

NextRecorded ==
    \/ \E r \in Rows : ProcessRowRecorded(r)
    \/ ClearRecorded

SpecRecorded == Init /\ [][NextRecorded]_vars

(***************************************************************************)
(* End-to-end scenario A.  After any stream, a user whose dict state is    *)
(* "init" with no rows browses clothing P1, shoes P2, clothing P3, three   *)
(* different products, every row inside the window opened by the first.    *)
(* The user is any of the qualifying users at the bounds of the two age    *)
(* ranges; pattern holds the rows of the scenario delivered so far.  The   *)
(* recipient list may be cleared at any time.                              *)
(***************************************************************************)
ScenarioAges == {25, 35, 45}
ScenarioTimestamps == {0, window_minutes - 1, window_minutes}

ScenarioRows ==
    [userId : {"u1"}, category : {"clothing", "shoes"}, productId : Products,
     timestamp : ScenarioTimestamps, gender : Genders, age : ScenarioAges]

continues_scenario(r) ==
    /\ qualifying(r)
    /\ IF pattern = <<>>
       THEN /\ r.category = "clothing"
            /\ user_state[r.userId].state = "init"
            /\ user_state[r.userId].rows = <<>>
       ELSE /\ r.userId = pattern[1].userId
            /\ r.gender = pattern[1].gender
            /\ r.age = pattern[1].age
            /\ r.timestamp - pattern[1].timestamp < window_ns
            /\ \A i \in 1..Len(pattern) : r.productId # pattern[i].productId
            /\ r.category = IF Len(pattern) = 1 THEN "shoes" ELSE "clothing"

BrowseScenario(r) ==
    /\ Len(pattern) < 3
    /\ continues_scenario(r)
    /\ Deliver(r)
    /\ pattern' = Append(pattern, r)
    /\ UNCHANGED <<ref_state, ref_recipients, row>>

NextScenario ==
    \/ \E r \in ScenarioRows : BrowseScenario(r)
    \/ \E r \in Rows : BrowseOther(r)
    \/ ClearSpecialOffersRecipients

SpecScenario == Init /\ [][NextScenario]_vars

(***************************************************************************)
(* End-to-end scenario B, continued.  After any stream, a qualifying user  *)
(* whose dict state is "init" with no rows browses clothing P1, shoes,     *)
(* clothing P1 again, shoes, and then clothing other than P1, no row a     *)
(* page refresh and every row inside the window opened by the first.  The  *)
(* session holds one row more than the sessions of the arbitrary stream.   *)
(* Every call records its row in row.                                      *)
(***************************************************************************)
ScenarioMaxRows == MaxRows + 1

\* age 35 qualifies for both genders
ScenarioBRows == {r \in ScenarioRows : r.age = 35}

continues_scenario_b(r) ==
    /\ qualifying(r)
    /\ IF pattern = <<>>
       THEN /\ r.category = "clothing"
            /\ user_state[r.userId].state = "init"
            /\ user_state[r.userId].rows = <<>>
       ELSE /\ r.userId = pattern[1].userId
            /\ r.gender = pattern[1].gender
            /\ r.age = pattern[1].age
            /\ r.timestamp - pattern[1].timestamp < window_ns
            /\ r.productId # pattern[Len(pattern)].productId
            /\ CASE Len(pattern) = 1 -> r.category = "shoes"
                 [] Len(pattern) = 2 -> /\ r.category = "clothing"
                                        /\ r.productId = pattern[1].productId
                 [] Len(pattern) = 3 -> r.category = "shoes"
                 [] OTHER -> /\ r.category = "clothing"
                             /\ r.productId # pattern[1].productId

BrowseScenarioB(r) ==
    /\ Len(pattern) < 5
    /\ continues_scenario_b(r)
    /\ DeliverUpTo(r, ScenarioMaxRows)
    /\ pattern' = Append(pattern, r)
    /\ row' = r
    /\ UNCHANGED <<ref_state, ref_recipients>>

BrowseBefore(r) ==
    /\ Len(pattern) \in {0, 5}
    /\ Deliver(r)
    /\ pattern' = <<>>
    /\ row' = r
    /\ UNCHANGED <<ref_state, ref_recipients>>

NextScenarioB ==
    \/ \E r \in ScenarioBRows : BrowseScenarioB(r)
    \/ \E r \in Rows : BrowseBefore(r)
    \/ ClearRecorded

SpecScenarioB == Init /\ [][NextScenarioB]_vars

(***************************************************************************)
(* The init rule.  A user whose dict state is "init" with no rows browses  *)
(* any category, with any gender and an age at or next to a bound of the   *)
(* two age ranges; a session that has opened goes on with the rows of      *)
(* EligibleRows and is not followed beyond its first rows.  Every call     *)
(* records its row in row.                                                 *)
(***************************************************************************)
DemographicMaxRows == 1

DemographicGenders == Genders \cup {"X"}
DemographicAges == {24, 25, 34, 35, 36, 45, 46}

DemographicRows ==
    [userId : {"u1"}, category : Categories, productId : Products,
     timestamp : {0}, gender : DemographicGenders, age : DemographicAges]

BrowseDemographic(r) ==
    /\ user_state[r.userId].state = "init"
    /\ user_state[r.userId].rows = <<>>
    /\ DeliverUpTo(r, DemographicMaxRows)
    /\ row' = r
    /\ UNCHANGED <<ref_state, ref_recipients, pattern>>

BrowseOn(r) ==
    /\ user_state[r.userId].rows # <<>>
    /\ DeliverUpTo(r, DemographicMaxRows)
    /\ row' = r
    /\ UNCHANGED <<ref_state, ref_recipients, pattern>>

NextDemographic ==
    \/ \E r \in DemographicRows : BrowseDemographic(r)
    \/ \E r \in EligibleRows : BrowseOn(r)
    \/ ClearRecorded

SpecDemographic == Init /\ [][NextDemographic]_vars

(***************************************************************************)
(* The recipient list and its reader.  Two users, the first M aged 40 and  *)
(* the second F aged 30, browse the rows of the pattern (clothing P1,      *)
(* shoes P2, clothing P3) in any order and any number of times;            *)
(* get_special_offers_recipients and clear_special_offers_recipients are   *)
(* called at any time.  The list holds one entry more than in the other    *)
(* runs.                                                                   *)
(***************************************************************************)
DispatchMaxRecipients == MaxRecipients + 1

PatternRowsOf(k, g, a) ==
    { [userId |-> k, category |-> "clothing", productId |-> "P1",
       timestamp |-> 0, gender |-> g, age |-> a],
      [userId |-> k, category |-> "shoes", productId |-> "P2",
       timestamp |-> 0, gender |-> g, age |-> a],
      [userId |-> k, category |-> "clothing", productId |-> "P3",
       timestamp |-> 0, gender |-> g, age |-> a] }

DispatchRows == PatternRowsOf("u1", "M", 40) \cup PatternRowsOf("u2", "F", 30)

\* what the holder of the reference reads through it
HeldList ==
    CASE held = "current" -> special_offers_recipients
      [] held = "old" -> old_list
      [] OTHER -> <<>>

BrowseDispatch(r) ==
    /\ DeliverWithin(r, MaxRows, DispatchMaxRecipients)
    /\ UNCHANGED <<ref_state, ref_recipients, pattern, row, dispatcher>>

\* get_special_offers_recipients: line 138 returns the list object itself
GetSpecialOffersRecipients ==
    /\ held' = "current"
    /\ old_list' = <<>>
    /\ snapshot' = special_offers_recipients
    /\ trace' = <<>>
    /\ time_valid' = "not called"
    /\ looked_up' = "none"
    /\ UNCHANGED <<user_state, special_offers_recipients, error>>

GetRecipients ==
    /\ GetSpecialOffersRecipients
    /\ UNCHANGED <<ref_state, ref_recipients, pattern, row, dispatcher>>

NextSnapshot ==
    \/ \E r \in DispatchRows : BrowseDispatch(r)
    \/ GetRecipients
    \/ ClearSpecialOffersRecipients

SpecSnapshot == Init /\ [][NextSnapshot]_vars

\* the same run without the reader
NextTriggers ==
    \/ \E r \in DispatchRows : BrowseDispatch(r)
    \/ ClearSpecialOffersRecipients

SpecTriggers == Init /\ [][NextTriggers]_vars

(***************************************************************************)
(* The dispatcher next to process_dataframe.  The dispatcher is the        *)
(* downstream reader of the specification: in a round it calls             *)
(* get_special_offers_recipients, delivers the entries it reads through    *)
(* the list it was given, then calls clear_special_offers_recipients.      *)
(* process_dataframe handles the rows of the first user between any two    *)
(* of its steps.                                                           *)
(***************************************************************************)
RaceRows == PatternRowsOf("u1", "M", 40)

\* the entries the step appended to the list
Appended ==
    SubSeq(special_offers_recipients', Len(special_offers_recipients) + 1,
           Len(special_offers_recipients'))

BrowseRace(r) ==
    /\ DeliverWithin(r, MaxRows, DispatchMaxRecipients)
    /\ undelivered' = undelivered \o Appended
    /\ UNCHANGED <<ref_state, ref_recipients, pattern, row, dpc, sent, lost>>

DispatcherRead ==
    /\ dpc = "idle"
    /\ GetSpecialOffersRecipients
    /\ dpc' = "read"
    /\ UNCHANGED <<ref_state, ref_recipients, pattern, row, sent, undelivered, lost>>

DispatcherDeliver ==
    /\ dpc = "read"
    /\ sent' = HeldList
    /\ undelivered' = <<>>
    /\ dpc' = "delivered"
    /\ UNCHANGED <<user_state, special_offers_recipients, trace, time_valid,
                   looked_up, error, ref_state, ref_recipients, pattern, row,
                   held, old_list, snapshot, lost>>

DispatcherClear ==
    /\ dpc = "delivered"
    /\ Clear
    /\ lost' = SubSeq(special_offers_recipients, Len(sent) + 1,
                      Len(special_offers_recipients))
    /\ undelivered' = <<>>
    /\ dpc' = "idle"
    /\ UNCHANGED <<ref_state, ref_recipients, pattern, row, sent>>

NextRace ==
    \/ \E r \in RaceRows : BrowseRace(r)
    \/ DispatcherRead
    \/ DispatcherDeliver
    \/ DispatcherClear

SpecRace == Init /\ [][NextRace]_vars

(***************************************************************************)
(* Vocabulary of the properties.                                           *)
(***************************************************************************)
\* the last call logged that user k entered state s (line 117)
Entered(k, s) ==
    \E i \in 1..Len(trace) :
        trace[i][1] = "entered" /\ trace[i][2] = k /\ trace[i][3] = s

\* the last call logged the given record and nothing else
LoggedOnly(kind, k) == trace = << <<kind, k>> >>

\* r is a page refresh for the session s: same product as the last row kept
SameProductAsLast(r, s) ==
    s.rows # <<>> /\ s.rows[Len(s.rows)].productId = r.productId

\* r arrives a full window or more after the anchor of the session s
OutsideWindow(r, s) ==
    s.rows # <<>> /\ r.timestamp - s.rows[1].timestamp >= window_ns

\* the rows of p are all less than a window apart from each other
InsideOneWindow(p) ==
    \A i, j \in 1..Len(p) : p[i].timestamp - p[j].timestamp < window_ns

(***************************************************************************)
(* C1. Offer resolution: a step that moves a user's automaton into "offer" *)
(* appends exactly one entry (userId, offer) to the recipient list and     *)
(* leaves that user's state at "init" with no rows; no other step makes    *)
(* the recipient list longer.                                              *)
(***************************************************************************)
C1_OfferResolution ==
    [][ /\ \A k \in Keys :
              Entered(k, "offer")' =>
                 /\ user_state'[k].state = "init"
                 /\ user_state'[k].rows = <<>>
                 /\ special_offers_recipients' =
                        Append(special_offers_recipients, <<k, user_state'[k].offer>>)
        /\ Len(special_offers_recipients') > Len(special_offers_recipients) =>
              \E k \in Keys : Entered(k, "offer")'
      ]_vars

C1_Witness ==
    \E k \in Keys :
        /\ Entered(k, "offer")
        /\ special_offers_recipients # <<>>
        /\ special_offers_recipients[Len(special_offers_recipients)][1] = k

(***************************************************************************)
(* C2. Between two rows, a user's rows are empty exactly when the state    *)
(* is "init".                                                              *)
(***************************************************************************)
C2_RowsEmptyIffInit ==
    \A k \in Keys : (user_state[k].rows = <<>>) <=> (user_state[k].state = "init")

C2_Witness ==
    \E k \in Keys :
        /\ user_state[k].state = "clothes_visited"
        /\ Len(user_state[k].rows) = 3
        /\ user_state[k].rows[2].category = "shoes"

(***************************************************************************)
(* C3. The state left between two rows is never "offer": it always has a   *)
(* rule list in the transition table, and the lookup of line 112 never     *)
(* fails.                                                                  *)
(***************************************************************************)
C3_OfferIsTransient ==
    /\ \A k \in Keys :
          /\ user_state[k].state # "offer"
          /\ user_state[k].state \in DOMAIN transitions
    /\ looked_up \in {"none", "init", "clothes_visited", "shoes_visited"}
    /\ error = "none"

C3_Witness ==
    \E k \in Keys :
        /\ Entered(k, "offer")
        /\ looked_up = "shoes_visited"
        /\ user_state[k].state \in DOMAIN transitions
        /\ error = "none"

(***************************************************************************)
(* C4. Eligibility: processing a row that has no gender or no age changes  *)
(* no dict state and appends no recipient, whatever the state of its user. *)
(***************************************************************************)
C4_IneligibleRowChangesNothing ==
    [][ /\ row' \in Rows
        /\ ("gender" \notin DOMAIN row' \/ "age" \notin DOMAIN row')
        => /\ user_state' = user_state
           /\ special_offers_recipients' = special_offers_recipients
      ]_vars

C4_Witness ==
    \E k \in Keys :
        /\ row \in NoAgeRows
        /\ row.userId = k
        /\ LoggedOnly("no age", k)
        /\ user_state[k].state = "shoes_visited"
        /\ user_state[k].offer = "offer2"

(***************************************************************************)
(* C5. Duplicate suppression: when two consecutive eligible rows of a user *)
(* share the productId, the second changes neither the state nor the rows  *)
(* of the user, whatever the first did.  The first row is read from the    *)
(* log record of line 117, which names the user and the product.           *)
(***************************************************************************)
PreviousRowEntered(k, p) ==
    /\ trace # <<>>
    /\ trace[1][1] = "entered"
    /\ trace[1][2] = k
    /\ trace[1][4] = p

C5_SecondSameProductIsNoOp ==
    [][ \A r \in EligibleRows \cup OtherUserRows :
           PreviousRowEntered(r.userId, r.productId) /\ ProcessRow(r) =>
               /\ user_state'[r.userId].state = user_state[r.userId].state
               /\ user_state'[r.userId].rows = user_state[r.userId].rows
      ]_vars

(***************************************************************************)
(* C6. A row the page refresh check skips leaves the whole dict state of   *)
(* its user (state, rows and offer) as it was, whatever gender it carries. *)
(***************************************************************************)
C6_PageRefreshChangesNothing ==
    [][ \A r \in EligibleRows \cup OtherUserRows :
           SameProductAsLast(r, user_state[r.userId]) /\ ProcessRow(r) =>
               user_state'[r.userId] = user_state[r.userId]
      ]_vars

(***************************************************************************)
(* C7. Window enforcement.  As claimed: every eligible row that arrives a  *)
(* window or more after the anchor takes no rule and leaves the session    *)
(* reset (state "init", no rows).                                          *)
(***************************************************************************)
SessionReset(k) ==
    /\ \A s \in DOMAIN transitions \cup {"offer"} : ~Entered(k, s)
    /\ user_state[k].state = "init"
    /\ user_state[k].rows = <<>>

C7_Original_OutsideWindowResets ==
    [][ \A k \in Keys :
           /\ row' \in EligibleRows \cup OtherUserRows
           /\ row'.userId = k
           /\ OutsideWindow(row', user_state[k])
           => SessionReset(k)'
      ]_vars

(***************************************************************************)
(* C7, amended: every eligible row that is not a page refresh and arrives  *)
(* a window or more after the anchor takes no rule and leaves the session  *)
(* reset, with no recipient appended.                                      *)
(***************************************************************************)
C7_OutsideWindowResets ==
    [][ \A k \in Keys :
           /\ row' \in EligibleRows \cup OtherUserRows
           /\ row'.userId = k
           /\ OutsideWindow(row', user_state[k])
           /\ ~SameProductAsLast(row', user_state[k])
           => /\ SessionReset(k)'
              /\ special_offers_recipients' = special_offers_recipients
      ]_vars

C7_Witness ==
    \E k \in Keys :
        /\ row \in EligibleRows \cup OtherUserRows
        /\ row.userId = k
        /\ row.timestamp >= window_ns
        /\ time_valid = "false"
        /\ LoggedOnly("reset", k)
        /\ SessionReset(k)

(***************************************************************************)
(* C8. Reset completeness: an eligible row that is not a page refresh and  *)
(* matches no rule of the rule set for the current state (condition and    *)
(* window guard) leaves state "init" and no rows, the row itself is not    *)
(* kept, and no recipient is appended.  The rule set is the table of the   *)
(* specification, written out here.                                        *)
(***************************************************************************)
QualifyingDemographic(r) ==
    \/ r.gender = "M" /\ r.age >= 35 /\ r.age <= 45
    \/ r.gender = "F" /\ r.age >= 25 /\ r.age <= 35

SomeRuleOfTheTableMatches(r, s) ==
    /\ ~OutsideWindow(r, s)
    /\ \/ s.state = "init" /\ r.category = "clothing" /\ QualifyingDemographic(r)
       \/ s.state = "clothes_visited" /\ r.category \in {"shoes", "clothing"}
       \/ s.state = "shoes_visited" /\ r.category = "clothing"

C8_NoMatchResets ==
    [][ \A k \in Keys :
           /\ row' \in EligibleRows \cup OtherUserRows
           /\ row'.userId = k
           /\ ~SameProductAsLast(row', user_state[k])
           /\ ~SomeRuleOfTheTableMatches(row', user_state[k])
           => /\ SessionReset(k)'
              /\ special_offers_recipients' = special_offers_recipients
      ]_vars

C8_Witness ==
    \E k \in Keys :
        /\ row \in EligibleRows \cup OtherUserRows
        /\ row.userId = k
        /\ looked_up = "shoes_visited"
        /\ time_valid = "not called"
        /\ LoggedOnly("reset", k)
        /\ SessionReset(k)

(***************************************************************************)
(* C9. For a user, the final dict state (state, rows and offer) and the    *)
(* recipients depend only on the rows that were not skipped: the run fed   *)
(* every row and the run fed only the rows not skipped agree.              *)
(***************************************************************************)
C9_SkippedRowsLeaveNoMark ==
    /\ ref_state = user_state
    /\ ref_recipients = special_offers_recipients

(***************************************************************************)
(* C10. Whenever a qualifying user's stream holds clothing P1, shoes P2,   *)
(* clothing P3 as three consecutive rows, all three inside one window      *)
(* duration of each other, the third row records a recipient for that      *)
(* user, whatever came before the three.                                   *)
(***************************************************************************)
C10_PatternRecordsRecipient ==
    Len(pattern) = 3 /\ InsideOneWindow(pattern) =>
        /\ Entered(pattern[3].userId, "offer")
        /\ special_offers_recipients # <<>>
        /\ special_offers_recipients[Len(special_offers_recipients)][1] =
               pattern[3].userId

(***************************************************************************)
(* C11. Scenario A: from state "init" with no rows, a qualifying user who  *)
(* browses clothing P1, shoes P2, clothing P3 (three different products)   *)
(* inside the window passes through "clothes_visited" and "shoes_visited", *)
(* each time with the rows browsed so far and no recipient, and the third  *)
(* row appends exactly one recipient, (userId, offer1) for M and           *)
(* (userId, offer2) otherwise, and leaves state "init" with no rows.       *)
(***************************************************************************)
C11_ScenarioA ==
    [][ \A k \in Keys :
           Len(pattern') = Len(pattern) + 1 /\ pattern'[1].userId = k =>
              /\ Len(pattern') = 1 =>
                    /\ user_state'[k].state = "clothes_visited"
                    /\ user_state'[k].rows = pattern'
                    /\ special_offers_recipients' = special_offers_recipients
              /\ Len(pattern') = 2 =>
                    /\ user_state'[k].state = "shoes_visited"
                    /\ user_state'[k].rows = pattern'
                    /\ special_offers_recipients' = special_offers_recipients
              /\ Len(pattern') = 3 =>
                    /\ user_state'[k].state = "init"
                    /\ user_state'[k].rows = <<>>
                    /\ special_offers_recipients' =
                          Append(special_offers_recipients,
                                 <<k, IF pattern'[1].gender = "M"
                                      THEN "offer1" ELSE "offer2">>)
      ]_vars

C11_Witness ==
    /\ Len(pattern) = 3
    /\ pattern[1].gender = "F"
    /\ pattern[1].age = 25
    /\ pattern[1].timestamp = 0
    /\ pattern[3].timestamp = window_minutes - 1
    /\ special_offers_recipients = << <<"u1", "offer2">> >>
    /\ user_state["u1"].state = "init"

(***************************************************************************)
(* C12.  As claimed: in state "shoes_visited", an eligible clothing row    *)
(* inside the window whose productId is that of rows[0] moves the user to  *)
(* "clothes_visited", is appended to the rows, keeps the anchor and        *)
(* records no recipient.                                                   *)
(***************************************************************************)
BackToAnchorProduct(r, s) ==
    /\ "gender" \in DOMAIN r /\ "age" \in DOMAIN r
    /\ s.state = "shoes_visited"
    /\ r.category = "clothing"
    /\ r.productId = s.rows[1].productId
    /\ r.timestamp - s.rows[1].timestamp < window_ns

ReturnsToClothesVisited(k) ==
    /\ user_state'[k].state = "clothes_visited"
    /\ user_state'[k].rows = Append(user_state[k].rows, row')
    /\ special_offers_recipients' = special_offers_recipients

C12_Original_ShoesToClothesOnAnchorProduct ==
    [][ \A k \in Keys :
           row'.userId = k /\ BackToAnchorProduct(row', user_state[k])
           => ReturnsToClothesVisited(k)
      ]_vars

(***************************************************************************)
(* C12, amended: the same for a row that is not a page refresh (its        *)
(* productId is not that of the last row); and in scenario B the session   *)
(* that went back to "clothes_visited" enters "shoes_visited" on the next  *)
(* shoes row and, on a clothing row other than the anchor's product,       *)
(* appends one recipient and leaves "init" with no rows.                   *)
(***************************************************************************)
C12_ShoesToClothesOnAnchorProduct ==
    [][ \A k \in Keys :
           /\ /\ row'.userId = k
               /\ BackToAnchorProduct(row', user_state[k])
               /\ ~SameProductAsLast(row', user_state[k])
               => ReturnsToClothesVisited(k)
           /\ Len(pattern') = Len(pattern) + 1 /\ pattern'[1].userId = k =>
                 /\ Len(pattern') = 3 =>
                       /\ user_state'[k].state = "clothes_visited"
                       /\ user_state'[k].rows = pattern'
                       /\ special_offers_recipients' = special_offers_recipients
                 /\ Len(pattern') = 4 =>
                       /\ user_state'[k].state = "shoes_visited"
                       /\ user_state'[k].rows = pattern'
                       /\ special_offers_recipients' = special_offers_recipients
                 /\ Len(pattern') = 5 =>
                       /\ user_state'[k].state = "init"
                       /\ user_state'[k].rows = <<>>
                       /\ special_offers_recipients' =
                             Append(special_offers_recipients,
                                    <<k, user_state'[k].offer>>)
      ]_vars

C12_Witness ==
    /\ Len(pattern) = 5
    /\ pattern[3].productId = pattern[1].productId
    /\ pattern[5].productId # pattern[1].productId
    /\ Entered(pattern[1].userId, "offer")
    /\ special_offers_recipients # <<>>
    /\ user_state[pattern[1].userId].state = "init"

(***************************************************************************)
(* C13. The init rule: from state "init" with no rows, an eligible row     *)
(* enters "clothes_visited" with itself as the only row exactly when its   *)
(* category is clothing and its user is M aged 35..45 or F aged 25..35,    *)
(* bounds included; any other eligible row leaves "init" with no rows; no  *)
(* recipient is appended either way.                                       *)
(***************************************************************************)
C13_InitRule ==
    [][ \A k \in Keys :
           /\ row' \in DemographicRows
           /\ row'.userId = k
           /\ user_state[k].state = "init"
           /\ user_state[k].rows = <<>>
           => /\ special_offers_recipients' = special_offers_recipients
              /\ IF row'.category = "clothing" /\ QualifyingDemographic(row')
                 THEN /\ user_state'[k].state = "clothes_visited"
                      /\ user_state'[k].rows = <<row'>>
                 ELSE /\ user_state'[k].state = "init"
                      /\ user_state'[k].rows = <<>>
      ]_vars

C13_Witness ==
    /\ row \in DemographicRows
    /\ row.gender = "F"
    /\ row.age = 35
    /\ user_state[row.userId].state = "clothes_visited"
    /\ user_state[row.userId].rows = <<row>>
    /\ Entered(row.userId, "clothes_visited")

(***************************************************************************)
(* C14. Last event wins: after any eligible row the offer of its user is   *)
(* offer1 if the row's gender is M and offer2 otherwise, and a recipient   *)
(* appended by the row carries that offer, whatever the gender of the      *)
(* anchor of the session was.                                              *)
(***************************************************************************)
OfferOfGender(g) == IF g = "M" THEN "offer1" ELSE "offer2"

C14_OfferOfLastEvent ==
    [][ \A k \in Keys :
           row' \in EligibleRows \cup OtherUserRows /\ row'.userId = k =>
              /\ user_state'[k].offer = OfferOfGender(row'.gender)
              /\ special_offers_recipients' # special_offers_recipients =>
                    special_offers_recipients' =
                       Append(special_offers_recipients,
                              <<k, OfferOfGender(row'.gender)>>)
      ]_vars

\* a row of gender F triggers the offer of a session whose anchor was M
C14_Witness ==
    /\ row \in EligibleRows
    /\ row.gender = "F"
    /\ looked_up = "shoes_visited"
    /\ Entered(row.userId, "offer")
    /\ special_offers_recipients = << <<row.userId, "offer2">> >>
    /\ user_state[row.userId].offer = "offer2"

(***************************************************************************)
(* C15. get_special_offers_recipients is a snapshot read: what it returned *)
(* stays as it was when it returned, whatever is appended or cleared       *)
(* afterwards.                                                             *)
(***************************************************************************)
C15_SnapshotRead == held # "none" => HeldList = snapshot

(***************************************************************************)
(* C16. Read and clear are two calls: when the dispatcher clears, the list *)
(* holds what it delivered followed by every entry appended since its      *)
(* delivery, and the clear empties it, so that exactly the entries         *)
(* appended between the delivery and the clear are removed undelivered;    *)
(* the witness is a round in which such an entry exists.                   *)
(***************************************************************************)
C16_ClearLosesLateRecipients ==
    [][ dpc = "delivered" /\ dpc' = "idle" =>
           /\ special_offers_recipients = sent \o undelivered
           /\ special_offers_recipients' = <<>>
           /\ lost' = undelivered
      ]_vars

C16_Witness ==
    /\ dpc = "idle"
    /\ lost # <<>>
    /\ sent # <<>>
    /\ special_offers_recipients = <<>>

(***************************************************************************)
(* C17. Every step other than clear_special_offers_recipients extends the  *)
(* recipient list by exactly the offers the step logged as triggered, in   *)
(* order, and changes nothing else of it: between two clears the list is   *)
(* the sequence of the triggers of all users since the last clear, with a  *)
(* user who triggers twice listed twice.                                   *)
(***************************************************************************)
TriggersLogged ==
    LET t == SelectSeq(trace, LAMBDA x : x[1] = "triggered")
    IN  [i \in 1..Len(t) |-> <<t[i][2], t[i][3]>>]

C17_ListIsTriggersSinceClear ==
    [][ ~ClearSpecialOffersRecipients =>
           special_offers_recipients' = special_offers_recipients \o TriggersLogged'
      ]_vars

C17_Witness ==
    /\ special_offers_recipients = << <<"u1", "offer1">>, <<"u1", "offer1">> >>
    /\ TriggersLogged = << <<"u1", "offer1">> >>

(***************************************************************************)
(* C18. The anchor stays: an eligible row leaves the rows of its user as   *)
(* they were, appends itself at their end, or empties them; a row logged   *)
(* as entering "clothes_visited" or "shoes_visited" is appended at the     *)
(* end; and whenever check_time_elapsed is called on a session with rows,  *)
(* it answers whether the row is less than a window after rows[0], and a   *)
(* rule is taken when it is.                                               *)
(***************************************************************************)
C18_AnchorNeverChanges ==
    [][ \A k \in Keys :
           row' \in EligibleRows \cup OtherUserRows /\ row'.userId = k =>
              /\ user_state'[k].rows \in
                    {user_state[k].rows, Append(user_state[k].rows, row'), <<>>}
              /\ Entered(k, "clothes_visited")' \/ Entered(k, "shoes_visited")' =>
                    user_state'[k].rows = Append(user_state[k].rows, row')
              /\ user_state[k].rows # <<>> /\ time_valid' # "not called" =>
                    /\ (time_valid' = "true") <=>
                          (row'.timestamp - user_state[k].rows[1].timestamp
                              < window_ns)
                    /\ time_valid' = "true" =>
                          \E s \in {"clothes_visited", "shoes_visited", "offer"} :
                             Entered(k, s)'
      ]_vars

\* a third row a window after the second but not after the anchor is taken,
\* by the rule from "shoes_visited" back to "clothes_visited"
C18_Witness ==
    \E k \in Keys :
        /\ row \in EligibleRows /\ row.userId = k
        /\ looked_up = "shoes_visited"
        /\ time_valid = "true"
        /\ user_state[k].state = "clothes_visited"
        /\ Len(user_state[k].rows) = 3
        /\ user_state[k].rows[3] = row
        /\ row.timestamp - user_state[k].rows[2].timestamp >= window_ns
        /\ row.timestamp - user_state[k].rows[1].timestamp < window_ns

(***************************************************************************)
(* C19. Soundness of triggers: whenever the recipient list grows, the step *)
(* processed an eligible row of the user of the new entry, that user was   *)
(* in "shoes_visited", the anchor rows[0] was a clothing row of a          *)
(* qualifying user, the last row was a shoes row, and the row is clothing, *)
(* of another product than the anchor, less than a window after it.        *)
(***************************************************************************)
C19_TriggersAreSound ==
    [][ Len(special_offers_recipients') > Len(special_offers_recipients) =>
           \E k \in Keys :
              /\ row' \in EligibleRows \cup OtherUserRows
              /\ row'.userId = k
              /\ special_offers_recipients'[Len(special_offers_recipients')][1] = k
              /\ user_state[k].state = "shoes_visited"
              /\ user_state[k].rows # <<>>
              /\ user_state[k].rows[1].category = "clothing"
              /\ QualifyingDemographic(user_state[k].rows[1])
              /\ user_state[k].rows[Len(user_state[k].rows)].category = "shoes"
              /\ row'.category = "clothing"
              /\ row'.productId # user_state[k].rows[1].productId
              /\ row'.timestamp - user_state[k].rows[1].timestamp < window_ns
      ]_vars

C19_Witness ==
    /\ row \in EligibleRows
    /\ row.category = "clothing"
    /\ row.gender = "M"
    /\ row.timestamp = window_minutes
    /\ looked_up = "shoes_visited"
    /\ Entered(row.userId, "offer")
    /\ special_offers_recipients = << <<row.userId, "offer1">> >>

(***************************************************************************)
(* C20. Structure of the rows at rest: every row is less than a window     *)
(* after rows[0], no two adjacent rows have the same productId, and the    *)
(* last row is clothing in "clothes_visited" and shoes in "shoes_visited", *)
(* where there are at least two rows.                                      *)
(***************************************************************************)
C20_RowsStructure ==
    \A k \in Keys :
        LET rows == user_state[k].rows
        IN  /\ \A i \in 1..Len(rows) :
                  rows[i].timestamp - rows[1].timestamp < window_ns
            /\ \A i \in 1..(Len(rows) - 1) :
                  rows[i].productId # rows[i + 1].productId
            /\ user_state[k].state = "clothes_visited" =>
                  rows # <<>> /\ rows[Len(rows)].category = "clothing"
            /\ user_state[k].state = "shoes_visited" =>
                  Len(rows) >= 2 /\ rows[Len(rows)].category = "shoes"

C20_Witness ==
    \E k \in Keys :
        /\ user_state[k].state = "shoes_visited"
        /\ Len(user_state[k].rows) = 3
        /\ user_state[k].rows[2].category = "clothing"
        /\ user_state[k].rows[2].timestamp # user_state[k].rows[1].timestamp
====
